---- MODULE Spec2Model ----
(***************************************************************************)
(* The affiliation / citation pipeline of src/app.py (NITK Publication &   *)
(* Citation Analyzer): the uploaded table, the four column selections, the *)
(* in-place column writes of the script, and the report tables it builds.  *)
(*                                                                         *)
(* Text is modelled as a sequence of one-character strings, so that        *)
(* splitting, searching, trimming, digit extraction and the text form of   *)
(* a number are computed and not assumed.                                  *)
(***************************************************************************)
EXTENDS Integers, Sequences, FiniteSets, TLC

(* ------------------------------------------------------------------ *)
(* Bounds of the model                                                *)
(* ------------------------------------------------------------------ *)
\* rows of a dataset in Spec
MaxRows == 4
\* rows of a dataset in SpecCitations
MaxCitationRows == 3
\* rows of a dataset in SpecRerun
MaxRerunRows == 2
\* characters of a raw year text in SpecYear
MaxYearLen == 5
\* characters of a raw cited-by text in SpecCited
MaxCitedLen == 4
\* pieces of a raw affiliation text in SpecClassify
MaxPieces == 4

(* ------------------------------------------------------------------ *)
(* Characters: the part of ASCII the model's texts use, in code-point *)
(* order (Python compares str by code point).                         *)
(* ------------------------------------------------------------------ *)
Chars ==
    << " ", ",", "-", "0", "1", "2", "3", "4", "5", "6", "7", "8", "9", ":", ";",
       "A", "B", "C", "D", "E", "F", "G", "H", "I", "J", "K", "L", "M",
       "N", "O", "P", "Q", "R", "S", "T", "U", "V", "W", "X", "Y", "Z",
       "a", "b", "c", "d", "e", "f", "g", "h", "i", "j", "k", "l", "m",
       "n", "o", "p", "q", "r", "s", "t", "u", "v", "w", "x", "y", "z" >>

CharSet == {Chars[i] : i \in 1..Len(Chars)}

Code == [c \in CharSet |-> CHOOSE i \in 1..Len(Chars) : Chars[i] = c]

Digits == <<"0", "1", "2", "3", "4", "5", "6", "7", "8", "9">>

IsDigit(c) == Code[c] >= Code["0"] /\ Code[c] <= Code["9"]

IsSpace(c) == c = " "

IsUpper(c) == Code[c] >= Code["A"] /\ Code[c] <= Code["Z"]

\* re.IGNORECASE compares letters by their case-folded form.
Lower(c) == IF IsUpper(c) THEN Chars[Code[c] + (Code["a"] - Code["A"])] ELSE c

DigitValue(c) == Code[c] - Code["0"]

\* Python's str comparison: lexicographic by code point, a proper prefix first.
RECURSIVE TextLess(_, _)
TextLess(s, t) ==
    IF t = <<>> THEN FALSE
    ELSE IF s = <<>> THEN TRUE
    ELSE IF Head(s) = Head(t) THEN TextLess(Tail(s), Tail(t))
    ELSE Code[Head(s)] < Code[Head(t)]

(* ------------------------------------------------------------------ *)
(* Cells of a DataFrame: a missing value (NaN / None), a text, or an   *)
(* integer (the Cited-by column after line 134).                       *)
(* ------------------------------------------------------------------ *)
NA == [k |-> "na", s |-> <<>>, n |-> 0]

Str(t) == [k |-> "str", s |-> t, n |-> 0]

IntCell(v) == [k |-> "int", s |-> <<>>, n |-> v]

\* pd.isna
IsNA(c) == c.k = "na"

RECURSIVE NatToText(_)
NatToText(v) ==
    IF v < 10 THEN <<Digits[v + 1]>>
    ELSE NatToText(v \div 10) \o <<Digits[(v % 10) + 1]>>

\* str() of a cell value, as .astype(str) applies it: NaN gives "nan".
ToText(c) ==
    CASE c.k = "na" -> <<"n", "a", "n">>
      [] c.k = "str" -> c.s
      [] OTHER -> IF c.n < 0 THEN <<"-">> \o NatToText(0 - c.n) ELSE NatToText(c.n)

\* The order pandas sorts group keys and sort_values columns by: numbers by
\* value, texts by code point.
CellLess(a, b) ==
    IF a.k = "int" /\ b.k = "int" THEN a.n < b.n
    ELSE TextLess(ToText(a), ToText(b))

(* ------------------------------------------------------------------ *)
(* extract_nitk_affiliation (lines 60-71)                              *)
(* ------------------------------------------------------------------ *)
InstitutionName ==
    << "N", "a", "t", "i", "o", "n", "a", "l", " ", "I", "n", "s", "t", "i", "t", "u",
       "t", "e", " ", "o", "f", " ", "T", "e", "c", "h", "n", "o", "l", "o", "g", "y",
       " ", "K", "a", "r", "n", "a", "t", "a", "k", "a" >>

RECURSIVE DropSpaces(_)
DropSpaces(t) ==
    IF t # <<>> /\ IsSpace(Head(t)) THEN DropSpaces(Tail(t)) ELSE t

\* re.split(r";\s*", text): the delimiter is a semicolon and the whitespace
\* after it; the pieces between delimiters, empty ones included.
RECURSIVE SplitFrom(_, _)
SplitFrom(t, cur) ==
    IF t = <<>> THEN <<cur>>
    ELSE IF Head(t) = ";" THEN <<cur>> \o SplitFrom(DropSpaces(Tail(t)), <<>>)
    ELSE SplitFrom(Tail(t), Append(cur, Head(t)))

Split(t) == SplitFrom(t, <<>>)

\* The pattern matches at the head of t, letters compared without case.
RECURSIVE MatchesAtHead(_, _)
MatchesAtHead(pat, t) ==
    IF pat = <<>> THEN TRUE
    ELSE IF t = <<>> THEN FALSE
    ELSE Lower(Head(pat)) = Lower(Head(t)) /\ MatchesAtHead(Tail(pat), Tail(t))

\* re.search(pat, part, re.IGNORECASE) finds a match
RECURSIVE Search(_, _)
Search(pat, t) ==
    IF Len(t) < Len(pat) THEN FALSE
    ELSE IF MatchesAtHead(pat, t) THEN TRUE
    ELSE Search(pat, Tail(t))

RECURSIVE DropTrailingSpaces(_)
DropTrailingSpaces(t) ==
    IF t # <<>> /\ IsSpace(t[Len(t)])
    THEN DropTrailingSpaces(SubSeq(t, 1, Len(t) - 1))
    ELSE t

\* str.strip()
Strip(t) == DropTrailingSpaces(DropSpaces(t))

\* for part in parts: if re.search(...): return part.strip()   /   return None
RECURSIVE FirstMatchingPart(_)
FirstMatchingPart(parts) ==
    IF parts = <<>> THEN NA
    ELSE IF Search(InstitutionName, Head(parts)) THEN Str(Strip(Head(parts)))
    ELSE FirstMatchingPart(Tail(parts))

extract_nitk_affiliation(text) ==
    IF IsNA(text) THEN NA
    ELSE FirstMatchingPart(Split(ToText(text)))

(* ------------------------------------------------------------------ *)
(* Year normalization (lines 80-85)                                    *)
(* ------------------------------------------------------------------ *)
Unknown == <<"U", "n", "k", "n", "o", "w", "n">>

\* The digits a text starts with
RECURSIVE TakeDigits(_)
TakeDigits(t) ==
    IF t # <<>> /\ IsDigit(Head(t)) THEN <<Head(t)>> \o TakeDigits(Tail(t)) ELSE <<>>

\* Mutant: the pattern (?<!\d)(\d{4})(?!\d), a run of exactly four digits
RECURSIVE ExtractRunOfFour(_)
ExtractRunOfFour(t) ==
    IF t = <<>> THEN <<>>
    ELSE IF IsDigit(Head(t))
    THEN IF Len(TakeDigits(t)) = 4 THEN TakeDigits(t)
         ELSE ExtractRunOfFour(SubSeq(t, Len(TakeDigits(t)) + 1, Len(t)))
    ELSE ExtractRunOfFour(Tail(t))

\* .str.extract(r"(\d{4})")[0]: the leftmost four consecutive digits, or
\* <<>> for no match (NaN in the extracted column).
RECURSIVE ExtractFourDigits(_)
ExtractFourDigits(t) ==
    IF Len(t) < 4 THEN <<>>
    ELSE IF IsDigit(t[1]) /\ IsDigit(t[2]) /\ IsDigit(t[3]) /\ IsDigit(t[4])
    THEN SubSeq(t, 1, 4)
    ELSE ExtractFourDigits(Tail(t))

\* Mutant: the year normalization without .fillna("Unknown")
NormalizeYearCellNoFill(c) ==
    LET m == ExtractFourDigits(ToText(c))
    IN  IF m = <<>> THEN NA ELSE Str(m)

\* .astype(str).str.extract(r"(\d{4})")[0].fillna("Unknown") on one cell
NormalizeYearCell(c) ==
    LET m == ExtractFourDigits(ToText(c))
    IN  IF m = <<>> THEN Str(Unknown) ELSE Str(m)

(* ------------------------------------------------------------------ *)
(* Cited-by normalization (lines 129-135)                              *)
(* ------------------------------------------------------------------ *)
\* .str.extract(r"(\d+)")[0]: the leftmost maximal run of digits, or <<>>
RECURSIVE ExtractDigitRun(_)
ExtractDigitRun(t) ==
    IF t = <<>> THEN <<>>
    ELSE IF IsDigit(Head(t)) THEN TakeDigits(t)
    ELSE ExtractDigitRun(Tail(t))

RECURSIVE DropLeadingZeros(_)
DropLeadingZeros(d) ==
    IF Len(d) > 1 /\ Head(d) = "0" THEN DropLeadingZeros(Tail(d)) ELSE d

\* The largest value of the int64 that .astype(int) converts to, as a numeral.
Int64MaxText ==
    << "9", "2", "2", "3", "3", "7", "2", "0", "3", "6", "8", "5", "4", "7", "7", "5",
       "8", "0", "7" >>

\* int(run) fits the int64 of .astype(int); otherwise the conversion raises
\* OverflowError.
FitsInt64(run) ==
    LET d == DropLeadingZeros(run)
    IN  \/ Len(d) < Len(Int64MaxText)
        \/ Len(d) = Len(Int64MaxText) /\ ~TextLess(Int64MaxText, d)

\* int(run)
RECURSIVE ParseNat(_)
ParseNat(d) ==
    IF d = <<>> THEN 0
    ELSE ParseNat(SubSeq(d, 1, Len(d) - 1)) * 10 + DigitValue(d[Len(d)])

\* The cell's digit run, or <<>>: what .astype(str).str.extract(r"(\d+)")[0] holds
CitedByRun(c) == ExtractDigitRun(ToText(c))

\* .fillna(0).astype(int) on one cell whose run fits
CleanCitedByCell(c) ==
    IF CitedByRun(c) = <<>> THEN IntCell(0) ELSE IntCell(ParseNat(CitedByRun(c)))

\* .astype(int) raises on this cell
CitedByOverflows(c) == CitedByRun(c) # <<>> /\ ~FitsInt64(CitedByRun(c))

(* ------------------------------------------------------------------ *)
(* Tables: a DataFrame is a sequence of rows, a row maps column names  *)
(* to cells.                                                           *)
(* ------------------------------------------------------------------ *)
\* df.columns of the uploaded file, in file order
Columns == <<"Affiliations", "Year", "Department", "Cited by">>

ColumnSet == {Columns[i] : i \in 1..Len(Columns)}

\* df[col] = values: the column is added, or overwritten when it exists
SetColumn(table, col, values) ==
    [i \in 1..Len(table) |->
        [c \in (DOMAIN table[i]) \cup {col} |->
            IF c = col THEN values[i] ELSE table[i][c]]]

\* A stable sort of t; before holds the pairs <<i, j>> for which t[i] sorts
\* before t[j]. Row i goes after the rows that sort before it and after the
\* equal rows that precede it.
StableSort(t, before) ==
    LET n == Len(t)
        Pos(i) == 1 + Cardinality({j \in 1..n :
                        \/ <<j, i>> \in before
                        \/ (<<i, j>> \notin before /\ j < i)})
    IN  [p \in 1..n |-> t[CHOOSE i \in 1..n : Pos(i) = p]]

\* The pairs of positions of t
Pairs(t) == (1..Len(t)) \X (1..Len(t))

RECURSIVE SetToSeq(_)
SetToSeq(S) ==
    IF S = {} THEN <<>>
    ELSE LET x == CHOOSE x \in S : TRUE IN <<x>> \o SetToSeq(S \ {x})

\* Group keys are tuples of cells, ordered column by column
RECURSIVE KeyLess(_, _)
KeyLess(a, b) ==
    IF a = <<>> THEN FALSE
    ELSE IF a[1] = b[1] THEN KeyLess(Tail(a), Tail(b))
    ELSE CellLess(a[1], b[1])

\* The key of a row for groupby(cols)
RowKey(row, cols) == [i \in 1..Len(cols) |-> row[cols[i]]]

\* groupby drops the rows that have a missing value in a key (dropna=True)
HasKey(row, cols) == \A i \in 1..Len(cols) : ~IsNA(row[cols[i]])

\* df.groupby(cols): the distinct keys, sorted (sort=True)
GroupKeys(table, cols) ==
    LET keys == SetToSeq({RowKey(table[i], cols) :
                    i \in {j \in 1..Len(table) : HasKey(table[j], cols)}})
    IN  StableSort(keys, {q \in Pairs(keys) : KeyLess(keys[q[1]], keys[q[2]])})

\* The rows of one group, by index
GroupRows(table, cols, key) ==
    {i \in 1..Len(table) : HasKey(table[i], cols) /\ RowKey(table[i], cols) = key}

RECURSIVE SumColumn(_, _, _)
SumColumn(table, col, idx) ==
    IF idx = {} THEN 0
    ELSE LET i == CHOOSE i \in idx : TRUE
         IN  table[i][col].n + SumColumn(table, col, idx \ {i})

(* ------------------------------------------------------------------ *)
(* The row label and the report tables                                 *)
(* ------------------------------------------------------------------ *)
BlankAffiliation ==
    Str(<< "B", "l", "a", "n", "k", " ", "A", "f", "f", "i", "l", "i", "a", "t", "i",
           "o", "n" >>)

NoNITKMention ==
    Str(<<"N", "o", " ", "N", "I", "T", "K", " ", "M", "e", "n", "t", "i", "o", "n">>)

Total == Str(<<"T", "o", "t", "a", "l">>)

\* label_affiliation(row), lines 90-96; row[affiliations_col] is read from the
\* table as it is when line 98 runs.
label_affiliation(row, aff_col) ==
    IF IsNA(row[aff_col]) THEN BlankAffiliation
    ELSE IF ~IsNA(row["NITK_Affiliation"]) THEN row["NITK_Affiliation"]
    ELSE NoNITKMention

\* Mutant: .sort_values(by=[year_column, metric]) with the default ascending
YearThenMetricAscending(a, b) ==
    \/ CellLess(a.year, b.year)
    \/ a.year = b.year /\ a.metric < b.metric

\* .sort_values(by=[year_column, metric], ascending=[True, False])
YearThenMetricDescending(a, b) ==
    \/ CellLess(a.year, b.year)
    \/ a.year = b.year /\ a.metric > b.metric

SortByYearThenMetric(t) ==
    StableSort(t, {q \in Pairs(t) : YearThenMetricDescending(t[q[1]], t[q[2]])})

\* .sort_values(by=metric, ascending=False); equal values keep their order
MetricDescending(a, b) == a.metric > b.metric

SortByMetric(t) ==
    StableSort(t, {q \in Pairs(t) : MetricDescending(t[q[1]], t[q[2]])})

\* lines 103-108: groupby([year_column, "Affiliation_Category"]).size()
\*   .reset_index(name="Count").sort_values(...)
YearwiseAffiliation(table, year_col) ==
    LET cols == <<year_col, "Affiliation_Category">>
        keys == GroupKeys(table, cols)
        sizes == [i \in 1..Len(keys) |->
                    [year |-> keys[i][1], group |-> keys[i][2],
                     metric |-> Cardinality(GroupRows(table, cols, keys[i]))]]
    IN  SortByYearThenMetric(sizes)

\* lines 110-116: groupby("Affiliation_Category").size().reset_index(name="Count")
\*   .sort_values(by="Count", ascending=False), then insert(0, year_column, "Total")
TotalAffiliation(table) ==
    LET cols == <<"Affiliation_Category">>
        keys == GroupKeys(table, cols)
        sizes == [i \in 1..Len(keys) |->
                    [year |-> Total, group |-> keys[i][1],
                     metric |-> Cardinality(GroupRows(table, cols, keys[i]))]]
    IN  SortByMetric(sizes)

\* lines 118-121: pd.concat([yearwise_affiliation, total_affiliation])
AffiliationCombined(yearwise, total) == yearwise \o total

\* Mutant: .count() in place of .sum()
DeptCitationCountTable(table, dept_col, cited_col) ==
    LET cols == <<dept_col>>
        keys == GroupKeys(table, cols)
        sums == [i \in 1..Len(keys) |->
                    [group |-> keys[i][1],
                     metric |-> Cardinality(GroupRows(table, cols, keys[i]))]]
    IN  SortByMetric(sums)

\* lines 140-145: groupby(dept_column)[cited_by_column].sum()
\*   .reset_index(name="Total_Cited_By").sort_values(by="Total_Cited_By", ascending=False)
DeptCitationTable(table, dept_col, cited_col) ==
    LET cols == <<dept_col>>
        keys == GroupKeys(table, cols)
        sums == [i \in 1..Len(keys) |->
                    [group |-> keys[i][1],
                     metric |-> SumColumn(table, cited_col, GroupRows(table, cols, keys[i]))]]
    IN  SortByMetric(sums)

\* lines 153-161: groupby([year_column, dept_column])[cited_by_column].sum()
\*   .reset_index(name="Total_Cited_By").sort_values(...)
YearDeptCitationTable(table, year_col, dept_col, cited_col) ==
    LET cols == <<year_col, dept_col>>
        keys == GroupKeys(table, cols)
        sums == [i \in 1..Len(keys) |->
                    [year |-> keys[i][1], group |-> keys[i][2],
                     metric |-> SumColumn(table, cited_col, GroupRows(table, cols, keys[i]))]]
    IN  SortByYearThenMetric(sums)

\* reset_index inserts one column per index level and raises
\* "cannot insert <name>, already exists" when two levels have the same name
ResetIndexRaises(year_col, dept_col) == year_col = dept_col

\* Mutant: every row that is not labelled Blank is kept
KeepRowWithAffiliation(row) == row["Affiliation_Category"] # BlankAffiliation

\* line 169: df[df["NITK_Affiliation"].notna()]
KeepRow(row) == ~IsNA(row["NITK_Affiliation"])

NitkOnly(table) == SelectSeq(table, KeepRow)

(* ------------------------------------------------------------------ *)
(* State                                                               *)
(* ------------------------------------------------------------------ *)
VARIABLES
    file,                   \* the uploaded dataset, as pd.read_csv / read_excel returns it
    df,                     \* the working DataFrame the script writes to
    affiliations_col,       \* the four selectbox values
    year_column,
    dept_column,
    cited_by_column,
    pc,                     \* the statement the script run is at
    error,                  \* the exception that ended the run, or "none"
    yearwise_affiliation,
    total_affiliation,
    affiliation_combined,
    dept_citations,
    year_dept_citations,
    nitk_only,
    run,                    \* "first", or what the second script run reads
    first                   \* the report tables of the first run

vars ==
    << file, df, affiliations_col, year_column, dept_column, cited_by_column, pc, error,
       yearwise_affiliation, total_affiliation, affiliation_combined, dept_citations,
       year_dept_citations, nitk_only, run, first >>

selection == <<affiliations_col, year_column, dept_column, cited_by_column>>

reports ==
    << yearwise_affiliation, total_affiliation, affiliation_combined, dept_citations,
       year_dept_citations, nitk_only >>

Reports ==
    [yearwise |-> yearwise_affiliation, total |-> total_affiliation,
     combined |-> affiliation_combined, dept |-> dept_citations,
     year_dept |-> year_dept_citations, nitk_only |-> nitk_only]

NoReports ==
    [yearwise |-> <<>>, total |-> <<>>, combined |-> <<>>, dept |-> <<>>,
     year_dept |-> <<>>, nitk_only |-> <<>>]

(* ------------------------------------------------------------------ *)
(* The script, one action per statement that writes state              *)
(* ------------------------------------------------------------------ *)
\* lines 73-75
ExtractAffiliation ==
    /\ pc = "extract"
    /\ df' = SetColumn(df, "NITK_Affiliation",
                       [i \in 1..Len(df) |-> extract_nitk_affiliation(df[i][affiliations_col])])
    /\ pc' = "normalize_year"
    /\ UNCHANGED <<file, selection, error, reports, run, first>>

\* lines 80-85
NormalizeYear ==
    /\ pc = "normalize_year"
    /\ df' = SetColumn(df, year_column,
                       [i \in 1..Len(df) |-> NormalizeYearCell(df[i][year_column])])
    /\ pc' = "label"
    /\ UNCHANGED <<file, selection, error, reports, run, first>>

\* line 98; on a table with no rows df.apply(..., axis=1) gives an empty
\* Series (pandas 1.5 and later), so the column is added and is empty
LabelAffiliation ==
    /\ pc = "label"
    /\ df' = SetColumn(df, "Affiliation_Category",
                       [i \in 1..Len(df) |-> label_affiliation(df[i], affiliations_col)])
    /\ pc' = "affiliation_counts"
    /\ UNCHANGED <<file, selection, error, reports, run, first>>

\* lines 103-121
AffiliationCounts ==
    /\ pc = "affiliation_counts"
    /\ yearwise_affiliation' = YearwiseAffiliation(df, year_column)
    /\ total_affiliation' = TotalAffiliation(df)
    /\ affiliation_combined' =
           AffiliationCombined(yearwise_affiliation', total_affiliation')
    /\ pc' = "clean_cited_by"
    /\ UNCHANGED <<file, df, selection, error, dept_citations, year_dept_citations,
                   nitk_only, run, first>>

\* lines 129-135; .astype(int) raises OverflowError when a digit run does not
\* fit, and the column is then left as it was
CleanCitedBy ==
    /\ pc = "clean_cited_by"
    /\ IF \E i \in 1..Len(df) : CitedByOverflows(df[i][cited_by_column])
       THEN /\ pc' = "error"
            /\ error' = "OverflowError"
            /\ df' = df
       ELSE /\ pc' = "dept_citations"
            /\ error' = error
            /\ df' = SetColumn(df, cited_by_column,
                               [i \in 1..Len(df) |-> CleanCitedByCell(df[i][cited_by_column])])
    /\ UNCHANGED <<file, selection, reports, run, first>>

\* lines 140-145
DeptCitations ==
    /\ pc = "dept_citations"
    /\ dept_citations' = DeptCitationTable(df, dept_column, cited_by_column)
    /\ pc' = "year_dept_citations"
    /\ UNCHANGED <<file, df, selection, error, yearwise_affiliation, total_affiliation,
                   affiliation_combined, year_dept_citations, nitk_only, run, first>>

\* lines 153-161; with the year and the department selectbox on one column
\* the two grouping levels have one name and reset_index raises ValueError
YearDeptCitations ==
    /\ pc = "year_dept_citations"
    /\ IF ResetIndexRaises(year_column, dept_column)
       THEN /\ pc' = "error"
            /\ error' = "ValueError"
            /\ year_dept_citations' = year_dept_citations
       ELSE /\ pc' = "nitk_only"
            /\ error' = error
            /\ year_dept_citations' =
                   YearDeptCitationTable(df, year_column, dept_column, cited_by_column)
    /\ UNCHANGED <<file, df, selection, yearwise_affiliation, total_affiliation,
                   affiliation_combined, dept_citations, nitk_only, run, first>>

\* line 169
FilterNitkOnly ==
    /\ pc = "nitk_only"
    /\ nitk_only' = NitkOnly(df)
    /\ pc' = "done"
    /\ UNCHANGED <<file, df, selection, error, yearwise_affiliation, total_affiliation,
                   affiliation_combined, dept_citations, year_dept_citations, run, first>>

Next ==
    \/ ExtractAffiliation
    \/ NormalizeYear
    \/ LabelAffiliation
    \/ AffiliationCounts
    \/ CleanCitedBy
    \/ DeptCitations
    \/ YearDeptCitations
    \/ FilterNitkOnly

(* ------------------------------------------------------------------ *)
(* Inputs: the uploaded datasets and the column selections             *)
(* ------------------------------------------------------------------ *)
BoundedSeq(S, n) == UNION {[1..k -> S] : k \in 0..n}

\* All texts of 1..n characters over an alphabet
Texts(alphabet, n) == UNION {[1..k -> alphabet] : k \in 1..n}

Row(aff, year, dept, cited) ==
    [c \in ColumnSet |->
        CASE c = "Affiliations" -> aff
          [] c = "Year" -> year
          [] c = "Department" -> dept
          [] OTHER -> cited]

\* The selectboxes: each on the column meant for it, or one of them on another
\* column, or all four on df.columns[0], the value a selectbox starts with.
Intended ==
    [aff |-> "Affiliations", year |-> "Year", dept |-> "Department", cited |-> "Cited by"]

Selections ==
    {Intended}
    \cup {[Intended EXCEPT ![r] = c] : r \in DOMAIN Intended, c \in ColumnSet}
    \cup {[r \in DOMAIN Intended |-> Columns[1]]}

\* "x; national institute of technology karnataka ": the second segment names
\* the institution, in another case, with a trailing blank
MatchedText ==
    <<"x", ";", " ">> \o [i \in 1..Len(InstitutionName) |-> Lower(InstitutionName[i])]
        \o <<" ">>

FooText == <<"F", "o", "o">>

Text2021 == <<"2", "0", "2", "1">>

TextCSE == <<"C", "S", "E">>

TextEEE == <<"E", "E", "E">>

Text5 == <<"5">>

\* "v2: cited 10 times"
TextTwoRuns ==
    << "v", "2", ":", " ", "c", "i", "t", "e", "d", " ", "1", "0", " ", "t", "i", "m",
       "e", "s" >>

\* a run of twenty digits
TextTwentyNines == [i \in 1..(Len(Int64MaxText) + 1) |-> "9"]

\* read_csv and read_excel give NaN for an empty cell, so a cell is NaN or a
\* non-empty text (or a number)
AffiliationCells == {NA, Str(MatchedText), Str(FooText)}

AffiliationRows ==
    {Row(a, y, Str(TextCSE), Str(Text5)) : a \in AffiliationCells, y \in {NA, Str(Text2021)}}

CitationRows ==
    {Row(Str(FooText), y, d, c) :
        y \in {NA, Str(Text2021)},
        d \in {NA, Str(TextCSE), Str(TextEEE)},
        c \in {Str(TextTwoRuns)}}

RerunRows ==
    {Row(a, y, Str(TextCSE), c) :
        a \in AffiliationCells, y \in {NA, Str(Text2021)}, c \in {NA, Str(Text5)}}

YearCells ==
    {NA, IntCell(2021), IntCell(7)}
    \cup {Str(t) : t \in Texts({"1", "2", "a"}, MaxYearLen)}

YearRows == {Row(Str(FooText), y, Str(TextCSE), Str(Text5)) : y \in YearCells}

\* The digit runs of these cells have at most MaxCitedLen digits, or more
\* digits than an int64 holds
CitedCells ==
    {NA, IntCell(42), Str(TextTwoRuns), Str(TextTwentyNines), Str(Int64MaxText \o <<"0">>)}
    \cup {Str(t) : t \in Texts({"0", "7", "a", "-"}, MaxCitedLen)}

CitedRows == {Row(Str(FooText), Str(Text2021), Str(TextCSE), c) : c \in CitedCells}

\* The state when the script reaches line 73: the file is read, the selectboxes
\* have their values, nothing is computed yet.
InitWith(files) ==
    /\ file \in files
    /\ df = file
    /\ \E sel \in Selections :
          /\ affiliations_col = sel.aff
          /\ year_column = sel.year
          /\ dept_column = sel.dept
          /\ cited_by_column = sel.cited
    /\ pc = "extract"
    /\ error = "none"
    /\ yearwise_affiliation = <<>>
    /\ total_affiliation = <<>>
    /\ affiliation_combined = <<>>
    /\ dept_citations = <<>>
    /\ year_dept_citations = <<>>
    /\ nitk_only = <<>>
    /\ run = "first"
    /\ first = NoReports

Init == InitWith(BoundedSeq(AffiliationRows, MaxRows))

Spec == Init /\ [][Next]_vars

InitCitations == InitWith(BoundedSeq(CitationRows, MaxCitationRows))

SpecCitations == InitCitations /\ [][Next]_vars

InitYear == InitWith({<<r>> : r \in YearRows})

SpecYear == InitYear /\ [][Next]_vars

InitCited == InitWith({<<r>> : r \in CitedRows})

\* Affiliation texts put together from the institution name as written, the
\* name in lower case, a semicolon, a blank and another character
Pieces ==
    {InstitutionName, [i \in 1..Len(InstitutionName) |-> Lower(InstitutionName[i])],
     <<";">>, <<" ">>, <<"x">>}

RECURSIVE Concat(_)
Concat(ps) == IF ps = <<>> THEN <<>> ELSE Head(ps) \o Concat(Tail(ps))

ClassifyCells ==
    {NA} \cup {Str(Concat(ps)) : ps \in UNION {[1..k -> Pieces] : k \in 1..MaxPieces}}

ClassifyRows == {Row(a, Str(Text2021), Str(TextCSE), Str(Text5)) : a \in ClassifyCells}

InitClassify == InitWith({<<r>> : r \in ClassifyRows})

SpecClassify == InitClassify /\ [][Next]_vars

SpecCited == InitCited /\ [][Next]_vars

(* ------------------------------------------------------------------ *)
(* A second script run                                                 *)
(* ------------------------------------------------------------------ *)
Ended == pc \in {"done", "error"}

\* Streamlit runs the script again from the top: lines 28-40 read the uploaded
\* file again, the selectboxes keep their values.
RerunOnFile ==
    /\ run = "first"
    /\ Ended
    /\ first' = Reports
    /\ run' = "same file"
    /\ df' = file
    /\ pc' = "extract"
    /\ error' = "none"
    /\ yearwise_affiliation' = <<>>
    /\ total_affiliation' = <<>>
    /\ affiliation_combined' = <<>>
    /\ dept_citations' = <<>>
    /\ year_dept_citations' = <<>>
    /\ nitk_only' = <<>>
    /\ UNCHANGED <<file, selection>>

\* The script run on the table the first run left: its year and cited-by
\* columns overwritten, its two derived columns present.
RerunOnTable ==
    /\ run = "first"
    /\ Ended
    /\ first' = Reports
    /\ run' = "left table"
    /\ file' = df
    /\ df' = df
    /\ pc' = "extract"
    /\ error' = "none"
    /\ yearwise_affiliation' = <<>>
    /\ total_affiliation' = <<>>
    /\ affiliation_combined' = <<>>
    /\ dept_citations' = <<>>
    /\ year_dept_citations' = <<>>
    /\ nitk_only' = <<>>
    /\ UNCHANGED selection

NextRerun ==
    \/ Next
    \/ RerunOnFile
    \/ RerunOnTable

InitRerun == InitWith(BoundedSeq(RerunRows, MaxRerunRows))

SpecRerun == InitRerun /\ [][NextRerun]_vars

(* ------------------------------------------------------------------ *)
(* Properties                                                          *)
(* ------------------------------------------------------------------ *)
\* The statements of the script that have run
Labelled == pc \notin {"extract", "normalize_year", "label"}

Counted == Labelled /\ pc # "affiliation_counts"

CitationTablesBuilt == pc \in {"nitk_only", "done"}

Min(S) == CHOOSE x \in S : \A y \in S : x <= y

AllDigits(t) == \A i \in 1..Len(t) : IsDigit(t[i])

RECURSIVE MetricSum(_, _)
MetricSum(table, idx) ==
    IF idx = {} THEN 0
    ELSE LET i == CHOOSE i \in idx : TRUE
         IN  table[i].metric + MetricSum(table, idx \ {i})

\* The category the claims give a raw affiliation value: the trimmed first
\* segment that names the institution, or the no-mention label
ExpectedCategory(raw) ==
    IF IsNA(raw) THEN BlankAffiliation
    ELSE LET parts == Split(ToText(raw))
             hits == {j \in 1..Len(parts) : Search(InstitutionName, parts[j])}
         IN  IF hits = {} THEN NoNITKMention ELSE Str(Strip(parts[Min(hits)]))

\* C1: in the first run, every row's category is Blank exactly when its raw
\* affiliation is absent, and otherwise the trimmed first segment naming the
\* institution, or NoMention when no segment names it.
C1_CategoryOfRawAffiliation ==
    (run = "first" /\ Labelled) =>
        \A i \in 1..Len(df) :
            LET raw == file[i][affiliations_col]
                cat == df[i]["Affiliation_Category"]
            IN  /\ (cat = BlankAffiliation) <=> IsNA(raw)
                /\ cat = ExpectedCategory(raw)

\* C1, where the affiliation column is not also the year column: the same
\* statement, which the code satisfies.
C1_CategoryOnOwnColumn ==
    (run = "first" /\ Labelled /\ affiliations_col # year_column) =>
        \A i \in 1..Len(df) :
            LET raw == file[i][affiliations_col]
                cat == df[i]["Affiliation_Category"]
            IN  /\ (cat = BlankAffiliation) <=> IsNA(raw)
                /\ cat = ExpectedCategory(raw)

\* C10: when labelling runs, the affiliation column still holds the raw values
\* of the file, and a row whose raw affiliation is absent is labelled Blank.
C10_LabelReadsRawAffiliation ==
    /\ (run = "first" /\ pc = "label") =>
           \A i \in 1..Len(df) : df[i][affiliations_col] = file[i][affiliations_col]
    /\ (run = "first" /\ Labelled) =>
           \A i \in 1..Len(df) :
               IsNA(file[i][affiliations_col]) =>
                   df[i]["Affiliation_Category"] = BlankAffiliation

\* C2: the counts of the per-period rows add up to the number of rows of the
\* dataset, and every row of the dataset falls in exactly one per-period row.
C2_CountsAddUp ==
    /\ Counted =>
           MetricSum(yearwise_affiliation, DOMAIN yearwise_affiliation) = Len(file)
    /\ pc = "clean_cited_by" =>
           \A i \in 1..Len(df) :
               Cardinality({r \in DOMAIN yearwise_affiliation :
                   /\ yearwise_affiliation[r].year = df[i][year_column]
                   /\ yearwise_affiliation[r].group = df[i]["Affiliation_Category"]}) = 1

C2_Witness ==
    /\ pc = "clean_cited_by"
    /\ Len(file) = 3
    /\ \E i, j, k \in 1..3 :
          /\ df[i][year_column] = Str(Unknown)
          /\ df[j]["Affiliation_Category"] = BlankAffiliation
          /\ df[k]["Affiliation_Category"] = NoNITKMention
    /\ Len(yearwise_affiliation) >= 2

\* The rows of a report table for one value of the non-time key
RowsOf(table, d) == {r \in DOMAIN table : table[r].group = d}

GroupsOf(table) == {table[r].group : r \in DOMAIN table}

\* The rollup of a per-period table: one row per value, its metric the sum of
\* the per-period metrics of that value
IsRollupOf(rollup, periods) ==
    /\ GroupsOf(rollup) = GroupsOf(periods)
    /\ \A d \in GroupsOf(rollup) :
          /\ Cardinality(RowsOf(rollup, d)) = 1
          /\ MetricSum(rollup, RowsOf(rollup, d)) = MetricSum(periods, RowsOf(periods, d))

\* C3: the Total count of a category is the sum of its per-year counts, the
\* department-only citation total of a department is the sum of its
\* year-by-department totals, and a value has a rollup row exactly when it has
\* a per-period row.
C3_RollupIsSumOverPeriods ==
    /\ Counted => IsRollupOf(total_affiliation, yearwise_affiliation)
    /\ CitationTablesBuilt => IsRollupOf(dept_citations, year_dept_citations)

C3_Witness ==
    /\ pc = "done"
    /\ \E r \in DOMAIN total_affiliation :
          /\ total_affiliation[r].metric = 2
          /\ Cardinality(RowsOf(yearwise_affiliation, total_affiliation[r].group)) = 2
    /\ \E r \in DOMAIN dept_citations :
          /\ dept_citations[r].metric = 4
          /\ Cardinality(RowsOf(year_dept_citations, dept_citations[r].group)) = 2
    /\ \E i \in 1..Len(df) : IsNA(df[i][dept_column])

IsTotalRow(r) == r.year = Total

\* C4: in the combined affiliation report the Total rows come after every
\* per-period row; per-period rows are in non-decreasing string order of the
\* year, Unknown after every 4-digit year, rows of one year in non-increasing
\* order of count; the Total rows are in non-increasing order of count.
C4_CombinedReportOrder ==
    Counted =>
        \A i, j \in DOMAIN affiliation_combined :
            i < j =>
                LET a == affiliation_combined[i]
                    b == affiliation_combined[j]
                IN  /\ IsTotalRow(a) => IsTotalRow(b)
                    /\ (~IsTotalRow(a) /\ ~IsTotalRow(b)) =>
                           /\ ~TextLess(b.year.s, a.year.s)
                           /\ (a.year.s = Unknown) => (b.year.s = Unknown)
                           /\ (a.year = b.year) => (a.metric >= b.metric)
                    /\ (IsTotalRow(a) /\ IsTotalRow(b)) => (a.metric >= b.metric)

C4_Witness ==
    /\ pc = "clean_cited_by"
    /\ \E i, j, k, l \in DOMAIN affiliation_combined :
          /\ i < j /\ j < k /\ k < l
          /\ affiliation_combined[i].year = Str(Text2021)
          /\ affiliation_combined[j].year = Str(Unknown)
          /\ IsTotalRow(affiliation_combined[k])
          /\ affiliation_combined[k].metric = 2
          /\ IsTotalRow(affiliation_combined[l])
          /\ affiliation_combined[l].metric = 1
    /\ \E i \in DOMAIN affiliation_combined :
          /\ i + 1 \in DOMAIN affiliation_combined
          /\ affiliation_combined[i].year = affiliation_combined[i + 1].year
          /\ ~IsTotalRow(affiliation_combined[i])
          /\ affiliation_combined[i].metric = 2
          /\ affiliation_combined[i + 1].metric = 1
          /\ CellLess(affiliation_combined[i + 1].group, affiliation_combined[i].group)

\* The positions of a text where four consecutive digits start
FourDigitStarts(t) ==
    {p \in 1..(Len(t) - 3) : AllDigits(SubSeq(t, p, p + 3))}

\* C5: the normalized year is the first 4 consecutive digits of the text form
\* of the raw value, also inside a longer digit run, and Unknown when the text
\* has no 4 consecutive digits; it is never empty and always a 4-digit numeral
\* or Unknown.
C5_NormalizedYear ==
    (run = "first" /\ pc = "label") =>
        \A i \in 1..Len(df) :
            LET t == ToText(file[i][year_column])
                y == df[i][year_column]
            IN  /\ y.k = "str"
                /\ y.s # <<>>
                /\ y.s = Unknown \/ (Len(y.s) = 4 /\ AllDigits(y.s))
                /\ IF FourDigitStarts(t) = {}
                   THEN y.s = Unknown
                   ELSE y.s = SubSeq(t, Min(FourDigitStarts(t)), Min(FourDigitStarts(t)) + 3)

C5_Witness ==
    /\ pc = "label"
    /\ file[1][year_column] = Str(<<"2", "1", "1", "1", "2">>)
    /\ df[1][year_column] = Str(<<"2", "1", "1", "1">>)

\* The positions of a text where a maximal run of digits starts
RunStarts(t) ==
    {p \in 1..Len(t) : IsDigit(t[p]) /\ (p = 1 \/ ~IsDigit(t[p - 1]))}

\* The end of the maximal run that starts at p
RunEnd(t, p) ==
    Min({q \in p..Len(t) : q = Len(t) \/ ~IsDigit(t[q + 1])})

\* The citation value the claims give a text: the first maximal run of digits
\* read as a number, 0 when there is no digit
ExpectedCitation(t) ==
    IF RunStarts(t) = {} THEN 0
    ELSE ParseNat(SubSeq(t, Min(RunStarts(t)), RunEnd(t, Min(RunStarts(t)))))

\* The cited-by column holds the stated value for every row (the raw value is
\* the file's when the year normalization has not written the same column)
CitationsAsStated ==
    (run = "first" /\ pc = "dept_citations" /\ year_column # cited_by_column) =>
        \A i \in 1..Len(df) :
            LET v == df[i][cited_by_column]
            IN  /\ v.k = "int"
                /\ v.n >= 0
                /\ v.n = ExpectedCitation(ToText(file[i][cited_by_column]))

\* C6: normalizing a raw citation value never fails, and gives a non-negative
\* integer: the value of the first maximal run of digits of the text form of
\* the value, and 0 when the text has no digit.
C6_NormalizedCitation ==
    /\ error # "OverflowError"
    /\ CitationsAsStated

\* C6 without "never fails": whenever the conversion does not raise, its
\* result is the stated one.
C6_ValueWhenConverted ==
    (error # "OverflowError") => CitationsAsStated

IsMatchedSegment(row) ==
    row["Affiliation_Category"] \notin {BlankAffiliation, NoNITKMention}

\* C7: the institution-only subset is the rows whose category is neither
\* Blank nor NoMention, in the order of the dataset.
C7_InstitutionOnlySubset ==
    pc = "done" => nitk_only = SelectSeq(df, IsMatchedSegment)

C7_Witness ==
    /\ pc = "done"
    /\ Len(df) = 3
    /\ Len(nitk_only) = 1
    /\ \E i, j \in 1..3 :
          /\ df[i]["Affiliation_Category"] = BlankAffiliation
          /\ df[j]["Affiliation_Category"] = NoNITKMention

AllReportsEmpty ==
    /\ yearwise_affiliation = <<>>
    /\ total_affiliation = <<>>
    /\ affiliation_combined = <<>>
    /\ dept_citations = <<>>
    /\ year_dept_citations = <<>>
    /\ nitk_only = <<>>

\* C8: a run on a dataset with zero rows does not fail, and ends with every
\* report empty and no Total row in the combined report.
C8_EmptyDatasetCompletes ==
    (run = "first" /\ Len(file) = 0) =>
        /\ pc # "error"
        /\ pc = "done" => AllReportsEmpty

\* C8, where the year and the department selectboxes are on different columns
C8_EmptyDatasetOnDistinctColumns ==
    (run = "first" /\ Len(file) = 0 /\ year_column # dept_column) =>
        /\ pc # "error"
        /\ pc = "done" => AllReportsEmpty

\* C9: a second run gives the report tables of the first run, when it reads
\* the same file and when it reads the table the first run left.
C9_RerunGivesSameReports ==
    (run # "first" /\ Ended) => Reports = first

\* C9 as the code satisfies it: the second run on the left table gives the
\* same reports when the affiliation column is not also the year or the
\* cited-by column (those two columns are the ones the first run overwrote).
C9_RerunGivesSameReportsOwnColumn ==
    /\ (run = "same file" /\ Ended) => Reports = first
    /\ (run = "left table" /\ Ended
            /\ affiliations_col \notin {year_column, cited_by_column}) =>
           Reports = first

C9_Witness ==
    /\ run = "left table"
    /\ pc = "done"
    /\ affiliations_col \notin {year_column, cited_by_column}
    /\ Len(nitk_only) = 1
    /\ Len(file) = 2
    /\ \E i \in 1..2 :
          /\ file[i][year_column] = Str(Unknown)
          /\ file[i][cited_by_column] = IntCell(0)
    /\ \E r \in DOMAIN dept_citations : dept_citations[r].metric = 5

====
